---- MODULE Spec2Model ----
(***************************************************************************)
(* Model of dashboard.py: the startup aggregation loop that fills          *)
(* precomputed_maps, the update_selections callback and the                *)
(* update_dashboard callback.                                              *)
(*                                                                         *)
(* Numbers are fixed point with one decimal: a value v of the program is   *)
(* the integer 10*v.  All inputs are integers (or integers divided by 10,  *)
(* line 13), and every rounding of the program is round(1), so the         *)
(* representation is exact.  Python None is the string "None".             *)
(***************************************************************************)
EXTENDS Integers, Sequences, FiniteSets, TLC

\* ------------------------------------------------------------------ bounds
MaxRecords == 2      \* rows of data/merged_df_dashboard.csv
MaxBatch == 2        \* simultaneous entries of ctx.triggered
MaxCalls == 2        \* direct invocations of update_dashboard (SpecCalls)

\* --------------------------------------------------------------- constants
None == "None"
NaN == "NaN"
divisor == 1000000

Metrics == <<"material_stock", "material_emissions", "manufacturing_emissions">>
Scenarios == <<"mean", "max", "min">>
MetricSet == {Metrics[i] : i \in DOMAIN Metrics}
ScenarioSet == {Scenarios[i] : i \in DOMAIN Scenarios}

\* The (metric, scenario) pairs in the order of the startup loop.
Pairs == [i \in 1..(Len(Metrics) * Len(Scenarios)) |->
            <<Metrics[((i - 1) \div Len(Scenarios)) + 1],
              Scenarios[((i - 1) % Len(Scenarios)) + 1]>>]

\* The ids of the inputs of update_selections.
SelectionInputs == {"norway-map", "chart-material-type", "reset-button",
                    "reset-material-button", "selected-muni-store",
                    "selected-material-store"}

\* ----------------------------------------------------------- input data
\* Labels of the input files, each list in pandas' sort order.
Kommuner == <<"0301", "1103", "9999">>
MaterialOrder == <<"TOTAL", "wood">>
CarrierOrder == <<"TOTAL", "electricity">>
TypeOrder == <<"residential">>
CohortOrder == <<"pre1950">>
MaterialLabels == {MaterialOrder[i] : i \in DOMAIN MaterialOrder}

\* The boundary file: "9999" has records but no boundary, "1103" has a
\* boundary but no records.  Municipality codes are unique in it.
municipals == << [kommunenum |-> "0301", kommunenav |-> "Oslo"],
                 [kommunenum |-> "1103", kommunenav |-> "Stavanger"] >>

\* Raw csv numbers (integers) of one row, per column (metric, scenario).
CsvBase(material) == IF material = "TOTAL" THEN 7000000 ELSE 5250000
CsvMetricShift(m) ==
    IF m = "material_stock" THEN 0
    ELSE IF m = "material_emissions" THEN 2000000 ELSE 4000000
CsvScenarioShift(s) ==
    IF s = "mean" THEN 0 ELSE IF s = "max" THEN 500000 ELSE 0 - 500000
CsvValue(material, col) ==
    CsvBase(material) + CsvMetricShift(col[1]) + CsvScenarioShift(col[2])

CsvRow(k, mat, ec) ==
    [kommunenum |-> k, material |-> mat, energy_carrier |-> ec,
     type |-> TypeOrder[1], cohort |-> CohortOrder[1],
     cols |-> [c \in {Pairs[i] : i \in DOMAIN Pairs} |-> CsvValue(mat, c)]]

RecordKommuner == <<"0301", "9999">>
CsvUniverse ==
    [i \in 1..(Len(RecordKommuner) * Len(MaterialOrder) * Len(CarrierOrder)) |->
       CsvRow(RecordKommuner[((i - 1) \div (Len(MaterialOrder) * Len(CarrierOrder))) + 1],
              MaterialOrder[(((i - 1) \div Len(CarrierOrder)) % Len(MaterialOrder)) + 1],
              CarrierOrder[((i - 1) % Len(CarrierOrder)) + 1])]

\* The csv files considered: up to MaxRecords distinct rows of the
\* universe, in universe order (the order of rows is irrelevant to every
\* sum the program takes).
CsvFiles ==
    UNION { { [j \in 1..n |-> CsvUniverse[s[j]]] :
              s \in {t \in [1..n -> DOMAIN CsvUniverse] :
                       \A a, b \in 1..n : a < b => t[a] < t[b]} } :
            n \in 0..MaxRecords }

\* Lines 12-13: read the csv, then divide the manufacturing_emissions_*
\* columns by 10.  In tenths: 10 * raw for the untouched columns, raw for
\* the divided ones.
LoadDf(csv) ==
    [j \in DOMAIN csv |->
       [csv[j] EXCEPT !.cols =
          [c \in DOMAIN csv[j].cols |->
             IF c[1] = "manufacturing_emissions"
             THEN (csv[j].cols[c] * 10) \div 10
             ELSE csv[j].cols[c] * 10]]]

\* ------------------------------------------------------- numeric helpers
RECURSIVE SumCol(_, _)
\* DataFrame[col].sum()
SumCol(rows, col) ==
    IF rows = <<>> THEN 0
    ELSE Head(rows).cols[col] + SumCol(Tail(rows), col)

\* (x / divisor).round(1): numpy rounds halves to even.
ScaleRound(x) ==
    LET q == x \div divisor
        r == x % divisor
    IN IF 2 * r < divisor THEN q
       ELSE IF 2 * r > divisor THEN q + 1
       ELSE IF q % 2 = 0 THEN q ELSE q + 1

RECURSIVE FloorLog10Tenths(_)
FloorLog10Tenths(t) == IF t < 10 THEN 0 - 1 ELSE 1 + FloorLog10Tenths(t \div 10)

\* np.log10(value.clip(lower=1e-6)), to the integer below: a value of 0
\* (or less) is clipped to 1e-6, whose log is -6.
Log10Clip(t) == IF t <= 0 THEN 0 - 6 ELSE FloorLog10Tenths(t)

Truthy(x) == x # None /\ x # ""

RECURSIVE Flatten(_)
Flatten(ss) == IF ss = <<>> THEN <<>> ELSE Head(ss) \o Flatten(Tail(ss))

\* ------------------------------------------- startup: precomputed_maps
KeyOrder ==
    [i \in 1..(Len(Kommuner) * Len(MaterialOrder)) |->
       <<Kommuner[((i - 1) \div Len(MaterialOrder)) + 1],
         MaterialOrder[((i - 1) % Len(MaterialOrder)) + 1]>>]

\* Variant of GroupByMuniMaterial whose sum ignores the material key.
GroupByMuniMaterial_any_material(frame, value_col) ==
    LET present == SelectSeq(KeyOrder, LAMBDA key :
                      \E j \in DOMAIN frame :
                         frame[j].kommunenum = key[1] /\ frame[j].material = key[2])
    IN [i \in DOMAIN present |->
          [kommunenum |-> present[i][1], material |-> present[i][2],
           value |-> SumCol(SelectSeq(frame, LAMBDA r :
                              r.kommunenum = present[i][1]), value_col)]]

\* df.groupby(["kommunenum", "material"], as_index=False)[value_col].sum()
GroupByMuniMaterial(frame, value_col) ==
    LET present == SelectSeq(KeyOrder, LAMBDA key :
                      \E j \in DOMAIN frame :
                         frame[j].kommunenum = key[1] /\ frame[j].material = key[2])
    IN [i \in DOMAIN present |->
          [kommunenum |-> present[i][1], material |-> present[i][2],
           value |-> SumCol(SelectSeq(frame, LAMBDA r :
                              r.kommunenum = present[i][1]
                              /\ r.material = present[i][2]), value_col)]]

\* .merge(municipals[["kommunenum", "kommunenav"]], on="kommunenum", how="left")
MergeName(grouped) ==
    Flatten([i \in DOMAIN grouped |->
       LET hits == SelectSeq(municipals,
                      LAMBDA m : m.kommunenum = grouped[i].kommunenum)
       IN IF hits = <<>>
          THEN << [kommunenum |-> grouped[i].kommunenum,
                   material |-> grouped[i].material,
                   value |-> grouped[i].value, kommunenav |-> NaN] >>
          ELSE [h \in DOMAIN hits |->
                  [kommunenum |-> grouped[i].kommunenum,
                   material |-> grouped[i].material,
                   value |-> grouped[i].value,
                   kommunenav |-> hits[h].kommunenav]]])

\* The body of the startup loop for one (metric, scenario).
PrecomputeTable(frame, value_col) == MergeName(GroupByMuniMaterial(frame, value_col))

\* ------------------------------------------------------------ the state
VARIABLES
    df,                 \* the loaded dataset (module global df)
    precomputed_maps,   \* (metric, scenario) -> aggregate table
    loop_i,             \* iterations of the startup loop done
    pc,                 \* "startup" | "serving"
    scenario,           \* value of scenario-dropdown
    metric,             \* value of metric-dropdown
    selected_muni,      \* data of selected-muni-store
    selected_material,  \* data of selected-material-store
    map_clickData,      \* norway-map.clickData: points[0].location, or None
    bar_clickData,      \* chart-material-type.clickData: points[0].y, or None
    triggered,          \* ctx.triggered ids of the running update_selections
    dirty,              \* an input of update_dashboard changed: call pending
    view,               \* what update_dashboard last returned
    calls               \* direct invocations of update_dashboard so far

vars == <<df, precomputed_maps, loop_i, pc, scenario, metric, selected_muni,
          selected_material, map_clickData, bar_clickData, triggered, dirty,
          view, calls>>

\* --------------------------------------------------- update_selections
\* Variant of update_selections that applies the resets before the clicks.
update_selections_reset_first(trig, map_click, bar_click, current_muni, current_material) ==
    LET muni1 == IF "reset-button" \in trig THEN None ELSE current_muni
        mat1 == IF "reset-material-button" \in trig THEN None ELSE current_material
        muni2 == IF "norway-map" \in trig /\ map_click # None
                 THEN map_click ELSE muni1
        mat2 == IF "chart-material-type" \in trig /\ bar_click # None
                THEN bar_click ELSE mat1
    IN <<muni2, mat2>>

\* Variant of update_selections that applies a click payload without
\* looking at ctx.triggered.
update_selections_any_payload(trig, map_click, bar_click, current_muni, current_material) ==
    LET muni1 == IF map_click # None THEN map_click ELSE current_muni
        mat1 == IF bar_click # None THEN bar_click ELSE current_material
        muni2 == IF "reset-button" \in trig THEN None ELSE muni1
        mat2 == IF "reset-material-button" \in trig THEN None ELSE mat1
    IN <<muni2, mat2>>

\* Lines 115-135.  Returns <<muni_sel, mat_sel>>.
update_selections(trig, map_click, bar_click, current_muni, current_material) ==
    LET muni1 == IF "norway-map" \in trig /\ map_click # None
                 THEN map_click ELSE current_muni
        mat1 == IF "chart-material-type" \in trig /\ bar_click # None
                THEN bar_click ELSE current_material
        muni2 == IF "reset-button" \in trig THEN None ELSE muni1
        mat2 == IF "reset-material-button" \in trig THEN None ELSE mat1
    IN <<muni2, mat2>>

\* ---------------------------------------------------- update_dashboard
chart_mode(m) ==
    IF m = "material_stock" THEN "material"
    ELSE IF m = "material_emissions" THEN "material" ELSE "energy_type"

prefix(m) ==
    IF m = "material_stock" THEN "material_stock"
    ELSE IF m = "material_emissions" THEN "material_emissions"
    ELSE "manufacturing_emissions"

value_col(m, s) == <<prefix(m), s>>

\* Variant of df_metric without the energy-carrier filter.
df_metric_all_carriers(m) == df

\* Lines 160, 168, 176: the working records of the metric.
df_metric(m) ==
    IF chart_mode(m) = "material"
    THEN SelectSeq(df, LAMBDA r : r.energy_carrier = "TOTAL")
    ELSE df

\* Lines 185-186: the material filter on the working records.
df_filtered(m, mat) ==
    IF Truthy(mat) /\ mat # "TOTAL"
    THEN SelectSeq(df_metric(m), LAMBDA r : r.material = mat)
    ELSE df_metric(m)

\* Lines 182-191: df_map is a filtered copy of the precomputed table in
\* the two branches, and the precomputed table itself otherwise.
df_map_is_copy(mat) == (Truthy(mat) /\ mat # "TOTAL") \/ ~Truthy(mat)

df_map(table, mat) ==
    LET t1 == IF Truthy(mat) /\ mat # "TOTAL"
              THEN SelectSeq(table, LAMBDA r : r.material = mat) ELSE table
    IN IF ~Truthy(mat)
       THEN SelectSeq(t1, LAMBDA r : r.material = "TOTAL") ELSE t1

\* Lines 194-196: the value column is replaced by its scaled, rounded
\* value and the log column is set from it.
ScaleMap(rows) ==
    [i \in DOMAIN rows |->
       [kommunenum |-> rows[i].kommunenum, material |-> rows[i].material,
        kommunenav |-> rows[i].kommunenav,
        value |-> ScaleRound(rows[i].value),
        log_value |-> Log10Clip(ScaleRound(rows[i].value))]]

\* Line 210: the highlight overlay.
highlight(muni) ==
    IF Truthy(muni)
    THEN SelectSeq(municipals, LAMBDA m : m.kommunenum = muni) ELSE <<>>

\* Line 233 raises KeyError when the code has no boundary row.
muni_lookup_raises(muni) ==
    Truthy(muni) /\ ~\E i \in DOMAIN municipals : municipals[i].kommunenum = muni

muni_name(muni) ==
    IF Truthy(muni)
    THEN LET hits == highlight(muni)
         IN IF hits = <<>> THEN NaN ELSE hits[1].kommunenav
    ELSE "all Norway"

\* Variant of sub without the municipality filter.
sub_all_munis(m, mat, muni) == df_filtered(m, mat)

\* Lines 232-237.
sub(m, mat, muni) ==
    IF Truthy(muni)
    THEN SelectSeq(df_filtered(m, mat), LAMBDA r : r.kommunenum = muni)
    ELSE df_filtered(m, mat)

\* Lines 240-243, on the rows of sub.
sub_total(m, rows) ==
    IF chart_mode(m) = "material"
    THEN SelectSeq(rows, LAMBDA r : r.material = "TOTAL")
    ELSE SelectSeq(rows, LAMBDA r : r.energy_carrier = "TOTAL")

\* Lines 245-247, the dividend: total_val is this sum over divisor.
total_sum(s, m, rows) ==
    LET st == sub_total(m, rows)
    IN IF st # <<>>
       THEN SumCol(st, value_col(m, s))
       ELSE SumCol(rows, value_col(m, s))

\* Lines 275, 304, 321, 323: the rows of sub both bar charts are built from.
bar_data(m, rows) ==
    IF chart_mode(m) = "material"
    THEN SelectSeq(rows, LAMBDA r : r.material # "TOTAL")
    ELSE SelectSeq(rows, LAMBDA r : r.energy_carrier # "TOTAL")

\* data.groupby([f1, f2], as_index=False)[col].sum(): the keys, sorted.
GroupKeys2(frame, f1, o1, f2, o2) ==
    SelectSeq([i \in 1..(Len(o1) * Len(o2)) |->
                 <<o1[((i - 1) \div Len(o2)) + 1], o2[((i - 1) % Len(o2)) + 1]>>],
              LAMBDA key : \E j \in DOMAIN frame :
                              frame[j][f1] = key[1] /\ frame[j][f2] = key[2])

GroupSum2(frame, f1, f2, key, col) ==
    SumCol(SelectSeq(frame, LAMBDA r : r[f1] = key[1] /\ r[f2] = key[2]), col)

\* Lines 274-317: the table of the first bar chart, from data1.
bar1(s, m, data1) ==
    IF chart_mode(m) = "material"
    THEN LET present == SelectSeq(MaterialOrder, LAMBDA k :
                           \E j \in DOMAIN data1 : data1[j].material = k)
             grp(k) == SelectSeq(data1, LAMBDA r : r.material = k)
         IN [i \in DOMAIN present |->
               [material |-> present[i],
                value |-> ScaleRound(SumCol(grp(present[i]), value_col(m, s))),
                stock |-> ScaleRound(SumCol(grp(present[i]),
                                            <<"material_stock", "mean">>)),
                emissions |-> ScaleRound(SumCol(grp(present[i]),
                                            <<"material_emissions", "mean">>))]]
    ELSE LET present == GroupKeys2(data1, "type", TypeOrder,
                                   "energy_carrier", CarrierOrder)
         IN [i \in DOMAIN present |->
               [type |-> present[i][1], energy_carrier |-> present[i][2],
                value |-> ScaleRound(GroupSum2(data1, "type", "energy_carrier",
                                               present[i], value_col(m, s)))]]

\* The y= column of the first bar chart (lines 292, 308).
bar1_y(m) == IF chart_mode(m) = "material" THEN "material" ELSE "type"

\* Lines 319-326: the table of the second bar chart, from data2.
bar2(s, m, data2) ==
    LET present == GroupKeys2(data2, "type", TypeOrder, "cohort", CohortOrder)
    IN [i \in DOMAIN present |->
          [type |-> present[i][1], cohort |-> present[i][2],
           value |-> ScaleRound(GroupSum2(data2, "type", "cohort",
                                          present[i], value_col(m, s)))]]

NoView == [rendered |-> FALSE, raised |-> FALSE]

\* Lines 150-342.  maps is precomputed_maps before the call; the result
\* holds precomputed_maps after it and the returned tables.
update_dashboard(s, m, muni, mat, maps, old) ==
    LET table == maps[<<m, s>>]
        shown == ScaleMap(df_map(table, mat))
        maps2 == IF df_map_is_copy(mat) THEN maps
                 ELSE [maps EXCEPT ![<<m, s>>] = shown]
        rows == sub(m, mat, muni)
        total == total_sum(s, m, rows)
        data == bar_data(m, rows)
    IN IF muni_lookup_raises(muni)
       THEN [maps |-> maps2, view |-> [old EXCEPT !.raised = TRUE]]
       ELSE [maps |-> maps2,
             view |-> [rendered |-> TRUE, raised |-> FALSE,
                       map |-> shown,
                       highlight |-> highlight(muni),
                       muni_name |-> muni_name(muni),
                       total_sum |-> total,
                       summary |-> ScaleRound(total),
                       bar1 |-> bar1(s, m, data),
                       bar1_y |-> bar1_y(m),
                       bar2 |-> bar2(s, m, data)]]

\* Lines 199-217: the locations a click on the map can carry: the rows of
\* the map table that match a feature of muni_geojson, and the overlay.
ClickableLocations(v) ==
    IF ~v.rendered THEN {}
    ELSE {v.map[i].kommunenum : i \in {j \in DOMAIN v.map :
             \E b \in DOMAIN municipals :
                municipals[b].kommunenum = v.map[j].kommunenum}}
         \cup {v.highlight[i].kommunenum : i \in DOMAIN v.highlight}

\* Lines 291-313: the y values a click on the first bar chart can carry.
ClickableBars(v) ==
    IF ~v.rendered THEN {}
    ELSE {v.bar1[i][v.bar1_y] : i \in DOMAIN v.bar1}

\* ------------------------------------------------------------- actions
\* State after lines 12-29 and the layout (lines 45-99): the data is
\* loaded, the dropdowns hold their initial values, the stores are empty.
Init ==
    /\ \E csv \in CsvFiles : df = LoadDf(csv)
    /\ precomputed_maps = <<>>
    /\ loop_i = 0
    /\ pc = "startup"
    /\ scenario = "mean"
    /\ metric = "material_stock"
    /\ selected_muni = None
    /\ selected_material = None
    /\ map_clickData = None
    /\ bar_clickData = None
    /\ triggered = {}
    /\ dirty = FALSE
    /\ view = NoView
    /\ calls = 0

\* Lines 35-41: one iteration of the startup loop.
Precompute ==
    /\ pc = "startup"
    /\ loop_i < Len(Pairs)
    /\ precomputed_maps' =
          [k \in {Pairs[i] : i \in 1..(loop_i + 1)} |->
             IF k = Pairs[loop_i + 1]
             THEN PrecomputeTable(df, k)
             ELSE precomputed_maps[k]]
    /\ loop_i' = loop_i + 1
    /\ UNCHANGED <<df, pc, scenario, metric, selected_muni, selected_material,
                   map_clickData, bar_clickData, triggered, dirty, view, calls>>

\* Lines 346-347: the app starts serving; the page load calls
\* update_dashboard (update_selections has prevent_initial_call).
Launch ==
    /\ pc = "startup"
    /\ loop_i = Len(Pairs)
    /\ pc' = "serving"
    /\ dirty' = TRUE
    /\ UNCHANGED <<df, precomputed_maps, loop_i, scenario, metric, selected_muni,
                   selected_material, map_clickData, bar_clickData, triggered,
                   view, calls>>

Batches == {t \in SUBSET SelectionInputs : Cardinality(t) \in 1..MaxBatch}

\* The update_selections callback (lines 104-135), run for one batch of
\* triggered inputs.  A triggered click input carries a click on the
\* figure on screen, the payload it already held, or no payload.
UpdateSelections ==
    /\ pc = "serving"
    /\ view.rendered
    /\ ~dirty
    /\ \E t \in Batches :
       \E mc \in (IF "norway-map" \in t
                  THEN ClickableLocations(view) \cup {None, map_clickData}
                  ELSE {map_clickData}) :
       \E bc \in (IF "chart-material-type" \in t
                  THEN ClickableBars(view) \cup {None, bar_clickData}
                  ELSE {bar_clickData}) :
          LET sel == update_selections(t, mc, bc, selected_muni, selected_material)
          IN /\ triggered' = t
             /\ map_clickData' = mc
             /\ bar_clickData' = bc
             /\ selected_muni' = sel[1]
             /\ selected_material' = sel[2]
    /\ dirty' = TRUE
    /\ UNCHANGED <<df, precomputed_maps, loop_i, pc, scenario, metric, view, calls>>

\* The user picks another scenario in scenario-dropdown (lines 51-61).
ChangeScenario ==
    /\ pc = "serving"
    /\ view.rendered
    /\ ~dirty
    /\ \E s \in ScenarioSet \ {scenario} : scenario' = s
    /\ dirty' = TRUE
    /\ UNCHANGED <<df, precomputed_maps, loop_i, pc, metric, selected_muni,
                   selected_material, map_clickData, bar_clickData, triggered,
                   view, calls>>

\* The user picks another metric in metric-dropdown (lines 63-73).
ChangeMetric ==
    /\ pc = "serving"
    /\ view.rendered
    /\ ~dirty
    /\ \E m \in MetricSet \ {metric} : metric' = m
    /\ dirty' = TRUE
    /\ UNCHANGED <<df, precomputed_maps, loop_i, pc, scenario, selected_muni,
                   selected_material, map_clickData, bar_clickData, triggered,
                   view, calls>>

\* The update_dashboard callback (lines 140-342) on the current inputs.
UpdateDashboard ==
    /\ pc = "serving"
    /\ dirty
    /\ LET out == update_dashboard(scenario, metric, selected_muni,
                                   selected_material, precomputed_maps, view)
       IN /\ precomputed_maps' = out.maps
          /\ view' = out.view
    /\ dirty' = FALSE
    /\ triggered' = {}
    /\ UNCHANGED <<df, loop_i, pc, scenario, metric, selected_muni,
                   selected_material, map_clickData, bar_clickData, calls>>

Next ==
    \/ Precompute
    \/ Launch
    \/ UpdateSelections
    \/ ChangeScenario
    \/ ChangeMetric
    \/ UpdateDashboard

\* The session: the callbacks as the page drives them.
Spec == Init /\ [][Next]_vars

\* update_dashboard as a function (lines 150-342): called with any
\* scenario and metric, any municipality that has a boundary or none, and
\* any label as the material or none.
CallMunis == {None} \cup {municipals[i].kommunenum : i \in DOMAIN municipals}
CallMaterials == {None, "residential"} \cup MaterialLabels

Call(limit) ==
    /\ pc = "serving"
    /\ calls < limit
    /\ \E s \in ScenarioSet, m \in MetricSet, mu \in CallMunis, ma \in CallMaterials :
          LET out == update_dashboard(s, m, mu, ma, precomputed_maps, view)
          IN /\ scenario' = s
             /\ metric' = m
             /\ selected_muni' = mu
             /\ selected_material' = ma
             /\ precomputed_maps' = out.maps
             /\ view' = out.view
    /\ calls' = calls + 1
    /\ dirty' = FALSE
    /\ UNCHANGED <<df, loop_i, pc, map_clickData, bar_clickData, triggered>>

\* Any sequence of up to MaxCalls calls.
CallDashboard == Call(MaxCalls)

NextCalls ==
    \/ Precompute
    \/ Launch
    \/ CallDashboard

SpecCalls == Init /\ [][NextCalls]_vars

\* One call on the tables as startup left them.
FirstCall == Call(1)

NextFirstCall ==
    \/ Precompute
    \/ Launch
    \/ FirstCall

SpecFirstCall == Init /\ [][NextFirstCall]_vars

\* ---------------------------------------------------------- properties
\* Sum of a column over a set of rows of df, taken row by row.
RECURSIVE RefSum(_, _)
RefSum(S, col) ==
    IF S = {} THEN 0
    ELSE LET j == CHOOSE x \in S : TRUE
         IN df[j].cols[col] + RefSum(S \ {j}, col)

MaterialMetrics == {"material_stock", "material_emissions"}

\* C1: a batch of update_selections that contains the municipality reset
\* leaves the selected municipality none, and one that contains the
\* material reset leaves the selected material none, whatever click is
\* triggered in the same batch.
C1_ResetWins ==
    /\ "reset-button" \in triggered => selected_muni = None
    /\ "reset-material-button" \in triggered => selected_material = None

\* C1 witness: a batch with the reset and a map click carrying a payload.
C1_Witness ==
    /\ "reset-button" \in triggered
    /\ "norway-map" \in triggered
    /\ map_clickData # None
    /\ selected_muni = None

\* C2: a selection field changes only in a step whose batch contains the
\* field's reset, or the field's click source with a payload.
C2_Frame ==
    [][ /\ selected_muni' # selected_muni =>
              \/ "reset-button" \in triggered'
              \/ "norway-map" \in triggered' /\ map_clickData' # None
        /\ selected_material' # selected_material =>
              \/ "reset-material-button" \in triggered'
              \/ "chart-material-type" \in triggered' /\ bar_clickData' # None
      ]_vars

\* C2 witness: a map click without payload was handled while the bar
\* chart held a stale payload and was not triggered: the municipality
\* stayed selected and the material stayed none.
C2_Witness ==
    /\ "norway-map" \in triggered
    /\ map_clickData = None
    /\ selected_muni # None
    /\ "chart-material-type" \notin triggered
    /\ bar_clickData # None
    /\ selected_material = None

\* C3: calling update_dashboard again with the inputs of the previous
\* call returns the same map table, bar tables and summary.
C3_Idempotent ==
    [][ ( /\ calls >= 1
          /\ calls' = calls + 1
          /\ <<scenario', metric', selected_muni', selected_material'>>
               = <<scenario, metric, selected_muni, selected_material>> )
        => view' = view ]_vars

\* C4: once the app serves, no step changes precomputed_maps.
C4_ReadOnly ==
    [][ pc = "serving" => precomputed_maps' = precomputed_maps ]_vars

\* The records the summary of a material metric is claimed to sum:
\* carrier TOTAL, the selected municipality (all when none), and the
\* selected material (TOTAL when none).
C5_Selected ==
    {j \in DOMAIN df :
        /\ df[j].energy_carrier = "TOTAL"
        /\ selected_muni # None => df[j].kommunenum = selected_muni
        /\ df[j].material = (IF selected_material = None THEN "TOTAL"
                             ELSE selected_material)}

\* The same without the restriction to the TOTAL material.
C5_AllMaterials ==
    {j \in DOMAIN df :
        /\ df[j].energy_carrier = "TOTAL"
        /\ selected_muni # None => df[j].kommunenum = selected_muni
        /\ selected_material \notin {None, "TOTAL"}
              => df[j].material = selected_material}

\* C5 as stated: for a material metric the summary, before the division,
\* is the sum of the column over the carrier-TOTAL records of the
\* selected municipality and the selected material (TOTAL when none).
C5_SummaryIsSelectedSum ==
    (calls > 0 /\ metric \in MaterialMetrics)
    => view.total_sum = RefSum(C5_Selected, <<metric, scenario>>)

\* C5 amended: that sum when at least one such record exists; when none
\* exists, the sum over the carrier-TOTAL records of the selected
\* municipality of every material.
C5_SummaryWithFallback ==
    (calls > 0 /\ metric \in MaterialMetrics)
    => view.total_sum =
          (IF C5_Selected # {}
           THEN RefSum(C5_Selected, <<metric, scenario>>)
           ELSE RefSum(C5_AllMaterials, <<metric, scenario>>))

\* C5 witness: nothing selected, TOTAL-material rows and rows of a
\* concrete material both present: the summary is the TOTAL rows' sum.
C5_Witness ==
    /\ calls > 0
    /\ metric \in MaterialMetrics
    /\ selected_muni = None
    /\ selected_material = None
    /\ C5_Selected # {}
    /\ C5_AllMaterials # C5_Selected
    /\ view.total_sum = RefSum(C5_Selected, <<metric, scenario>>)

\* C6: for a material metric the map value of a municipality is the
\* scaled sum of the column over its carrier-TOTAL records of the
\* displayed material (the selected one, TOTAL when none).
C6_MapUsesCarrierTotal ==
    (calls > 0 /\ metric \in MaterialMetrics)
    => \A i \in DOMAIN view.map :
          view.map[i].value =
             ScaleRound(RefSum({j \in DOMAIN df :
                  /\ df[j].kommunenum = view.map[i].kommunenum
                  /\ df[j].energy_carrier = "TOTAL"
                  /\ df[j].material = (IF selected_material = None THEN "TOTAL"
                                       ELSE selected_material)},
                <<metric, scenario>>))

\* C7: the map table returned by update_dashboard has at most one row
\* per municipality code.
C7_OneRowPerMunicipality ==
    calls > 0
    => \A i, j \in DOMAIN view.map :
          view.map[i].kommunenum = view.map[j].kommunenum => i = j

\* C8: while the startup loop runs and when it has ended, every table
\* filled so far has exactly one row for each (municipality, material)
\* pair of the records and none for another pair, and the row's value is
\* the sum of the column over the records of that pair (so the TOTAL row
\* sums the records labelled TOTAL only).
C8_PrecomputeCorrect ==
    pc = "startup"
    => \A k \in DOMAIN precomputed_maps :
          LET t == precomputed_maps[k]
          IN /\ \A j \in DOMAIN df :
                   Cardinality({i \in DOMAIN t :
                       /\ t[i].kommunenum = df[j].kommunenum
                       /\ t[i].material = df[j].material}) = 1
             /\ \A i \in DOMAIN t :
                   /\ \E j \in DOMAIN df :
                         /\ df[j].kommunenum = t[i].kommunenum
                         /\ df[j].material = t[i].material
                   /\ t[i].value =
                         RefSum({j \in DOMAIN df :
                                    /\ df[j].kommunenum = t[i].kommunenum
                                    /\ df[j].material = t[i].material}, k)

\* C8 witness: the loop has ended on a dataset with a TOTAL row and a
\* concrete-material row of the same municipality.
C8_Witness ==
    /\ pc = "startup"
    /\ loop_i = Len(Pairs)
    /\ DOMAIN precomputed_maps = {Pairs[i] : i \in DOMAIN Pairs}
    /\ \E a, b \in DOMAIN df :
          /\ df[a].kommunenum = df[b].kommunenum
          /\ df[a].material = "TOTAL"
          /\ df[b].material # "TOTAL"

\* No record matches the current municipality and material filters.
C9_NoMatchingRecord ==
    ~\E j \in DOMAIN df :
        /\ selected_muni # None => df[j].kommunenum = selected_muni
        /\ selected_material # None => df[j].material = selected_material

\* No record at all carries the material the map displays.
C9_NoDisplayedMaterial ==
    ~\E j \in DOMAIN df :
        df[j].material = (IF selected_material = None THEN "TOTAL"
                          ELSE selected_material)

C9_Shown == pc = "serving" /\ view.rendered /\ ~dirty

\* C9 as stated: update_dashboard never raises, and when no record
\* matches the filters the map table and both bar tables are empty and
\* the summary is 0.
C9_EmptyAllTables ==
    /\ ~view.raised
    /\ (C9_Shown /\ C9_NoMatchingRecord)
       => /\ view.map = <<>>
          /\ view.bar1 = <<>>
          /\ view.bar2 = <<>>
          /\ view.total_sum = 0
          /\ view.summary = 0

\* C9 amended: update_dashboard never raises, and when no record matches
\* the filters both bar tables are empty and the summary is 0; the map
\* table is empty when no record at all carries the displayed material.
C9_EmptyBarsAndSummary ==
    /\ ~view.raised
    /\ (C9_Shown /\ C9_NoMatchingRecord)
       => /\ view.bar1 = <<>>
          /\ view.bar2 = <<>>
          /\ view.total_sum = 0
          /\ view.summary = 0
          /\ C9_NoDisplayedMaterial => view.map = <<>>

\* C9 witness: a municipality and a label were selected by clicks, no
\* record of the dataset matches both, and the view was rendered with
\* empty bar tables and a summary of 0.
C9_Witness ==
    /\ C9_Shown
    /\ C9_NoMatchingRecord
    /\ selected_muni # None
    /\ selected_material # None
    /\ df # <<>>
    /\ view.bar1 = <<>>
    /\ view.bar2 = <<>>
    /\ view.summary = 0

\* C10: the selected material is none or a label of the material
\* dimension.
C10_MaterialDomain ==
    selected_material = None \/ selected_material \in MaterialLabels

====
